---- MODULE Spec2Model ----
(***************************************************************************)
(* A model of the AI Job Schema Collector (src/app.py) and of its password *)
(* gate (src/password_gate.py).                                            *)
(*                                                                         *)
(* The program is a Streamlit script: every user interaction re-executes   *)
(* the script from top to bottom against the per-session st.session_state. *)
(* One action of the model is one script run triggered by one button (or   *)
(* by st.rerun()).  Text values are sequences of one-character strings, so *)
(* that str.strip() and the closing-date regular expression are computed   *)
(* character by character.  A Python dict is a record [keys, val]: its     *)
(* keys in insertion order and its mapping.                                *)
(***************************************************************************)
EXTENDS Integers, Sequences, FiniteSets, TLC

VARIABLES
    schema,           \* st.session_state["schema"]: the Record (a dict)
    pending_fields,   \* st.session_state["pending_fields"]: the Missing-Field Queue
    current_field,    \* st.session_state["current_field"]: the cursor, or None
    extracted,        \* st.session_state["extracted"]: an extraction was stored
    detected_source,  \* st.session_state["detected_source"]: source label, or None
    last_click,       \* the button that triggered the most recent script run
    user_input,       \* the wizard text box as submitted by "Save this field"
    resp,             \* the external model's response in the most recent extraction
    extracted_local,  \* the value call_openai_structurer returned in that run
    source_text,      \* the text the most recent "Extract from source" run acquired
    target_schema,    \* the module-level TARGET_SCHEMA dict as the last run left it
    pc,               \* "idle": waiting for the user; "rerun": st.rerun() requested
    PW_HASH,          \* password_gate.PW_HASH: the configured digest ("" if unset)
    authenticated,    \* st.session_state.authenticated
    pw,               \* the gate's password box as submitted
    gate_result       \* how the last run of require_password ended

vars == <<schema, pending_fields, current_field, extracted, detected_source,
          last_click, user_input, resp, extracted_local, source_text,
          target_schema, pc,
          PW_HASH, authenticated, pw, gate_result>>

appVars == <<schema, pending_fields, current_field, extracted, detected_source,
             last_click, user_input, resp, extracted_local, source_text,
             target_schema, pc>>

gateVars == <<PW_HASH, authenticated, pw, gate_result>>

sessionVars == <<schema, pending_fields, current_field, extracted, detected_source>>

(***************************************************************************)
(* Python values                                                           *)
(***************************************************************************)
None == "None"

Empty == <<>>

Whitespace == {" ", "\n", "\t", "\r"}

Digits == {"0", "1", "2", "3", "4", "5", "6", "7", "8", "9"}

\* s.strip(chars): drop leading and trailing characters that are in chars.
RECURSIVE LStripChars(_, _)
LStripChars(s, chars) ==
    IF s # <<>> /\ Head(s) \in chars THEN LStripChars(Tail(s), chars) ELSE s

RECURSIVE RStripChars(_, _)
RStripChars(s, chars) ==
    IF s # <<>> /\ s[Len(s)] \in chars
    THEN RStripChars(SubSeq(s, 1, Len(s) - 1), chars)
    ELSE s

StripChars(s, chars) == RStripChars(LStripChars(s, chars), chars)

\* s.strip(): drop leading and trailing whitespace.
Strip(s) == StripChars(s, Whitespace)

\* Python truthiness of a str: "not v" is true of the empty string only.
Truthy(v) == v # Empty

\* DatePattern without the closing anchor: r"^\d{4}-\d{2}-\d{2}".
DatePattern_Unanchored(s) ==
    /\ Len(s) >= 10
    /\ \A i \in {1, 2, 3, 4, 6, 7, 9, 10} : s[i] \in Digits
    /\ s[5] = "-"
    /\ s[8] = "-"

\* re.match(r"^\d{4}-\d{2}-\d{2}$", answer): "$" also matches just before a
\* final newline.
DatePattern(s) ==
    /\ Len(s) \in {10, 11}
    /\ \A i \in {1, 2, 3, 4, 6, 7, 9, 10} : s[i] \in Digits
    /\ s[5] = "-"
    /\ s[8] = "-"
    /\ Len(s) = 11 => s[11] = "\n"

(***************************************************************************)
(* dicts                                                                   *)
(***************************************************************************)
Range(s) == {s[i] : i \in 1..Len(s)}

Dict(ks, f) == [keys |-> ks, val |-> f]

DictKeySet(d) == Range(d.keys)

\* d.get(k, "")
DictGet(d, k) == IF k \in DictKeySet(d) THEN d.val[k] ELSE Empty

\* d[k] = v: an existing key keeps its place, a new key is appended.
DictSet(d, k, v) ==
    IF k \in DictKeySet(d)
    THEN [d EXCEPT !.val[k] = v]
    ELSE Dict(Append(d.keys, k), [x \in DictKeySet(d) \cup {k} |->
                                      IF x = k THEN v ELSE d.val[x]])

\* any(d.values()) and all(d.values())
AnyValue(d) == \E k \in DictKeySet(d) : Truthy(d.val[k])

AllValues(d) == \A k \in DictKeySet(d) : Truthy(d.val[k])

(***************************************************************************)
(* The Target Schema                                                       *)
(***************************************************************************)
SchemaKeys ==
    <<"job_title", "department", "location", "salary", "grade", "closing_date",
      "summary", "responsibilities", "essential_criteria", "desirable_criteria">>

SchemaKeySet == Range(SchemaKeys)

TARGET_SCHEMA == Dict(SchemaKeys, [k \in SchemaKeySet |-> Empty])

\* get_missing_fields with the "not v" test alone.
get_missing_fields_NotOnly(current_schema) ==
    SelectSeq(current_schema.keys, LAMBDA k : ~Truthy(current_schema.val[k]))

\* [k for k, v in current_schema.items() if not v or not str(v).strip()]
get_missing_fields(current_schema) ==
    SelectSeq(current_schema.keys,
              LAMBDA k : \/ ~Truthy(current_schema.val[k])
                         \/ ~Truthy(Strip(current_schema.val[k])))

(***************************************************************************)
(* Sample texts                                                            *)
(***************************************************************************)
Txt == <<"x">>

Blank == <<" ">>

PaddedTxt == <<" ", "x", "\n">>

GoodDate == <<"2", "0", "2", "5", "-", "1", "1", "-", "0", "7">>

PaddedDate == <<" ">> \o GoodDate \o <<" ">>

BadDate == <<"0", "7", "/", "1", "1", "/", "2", "0", "2", "5">>

LongDate == GoodDate \o <<"0">>

(***************************************************************************)
(* The external model's response and json.loads                            *)
(*                                                                         *)
(* A response text is a sequence of tokens: single characters, the word    *)
(* json (a fence's language tag), and whole JSON documents.                *)
(***************************************************************************)
NoKeys == [k \in {} |-> Empty]

NoValue == [type |-> "none", keys |-> <<>>, val |-> NoKeys]

\* A dict as a returned Python value.
DictValue(d) == [type |-> "dict", keys |-> d.keys, val |-> d.val]

OtherValue(t) == [type |-> t, keys |-> <<>>, val |-> NoKeys]

FilledByStub == {"job_title", "department", "location", "closing_date"}

FillOf(k) == IF k = "closing_date" THEN GoodDate ELSE Txt

PartialVal == [k \in SchemaKeySet |-> IF k \in FilledByStub THEN FillOf(k) ELSE Empty]

\* Sample response: the fields before closing_date filled, the rest empty.
NoDateVal ==
    [k \in SchemaKeySet |->
        IF k \in {"job_title", "department", "location", "salary", "grade"}
        THEN Txt ELSE Empty]

OmitKeys == SelectSeq(SchemaKeys, LAMBDA k : k \in FilledByStub)

PermutedKeys == [i \in 1..Len(SchemaKeys) |-> SchemaKeys[Len(SchemaKeys) + 1 - i]]

JsonDocs ==
    {"{full}", "{partial}", "{empty}", "{omits}", "{extra}", "{permuted}",
     "{nodate}", "[list]", "null"}

\* The value of each JSON document token.
Decode(doc) ==
    CASE doc = "{full}" ->
           DictValue(Dict(SchemaKeys, [k \in SchemaKeySet |-> FillOf(k)]))
      [] doc = "{partial}" -> DictValue(Dict(SchemaKeys, PartialVal))
      [] doc = "{empty}" -> DictValue(TARGET_SCHEMA)
      [] doc = "{omits}" ->
           DictValue(Dict(OmitKeys, [k \in FilledByStub |-> FillOf(k)]))
      [] doc = "{extra}" ->
           DictValue(Dict(Append(SchemaKeys, "notes"),
                          [k \in SchemaKeySet \cup {"notes"} |->
                              IF k = "notes" THEN Empty ELSE PartialVal[k]]))
      [] doc = "{permuted}" -> DictValue(Dict(PermutedKeys, PartialVal))
      [] doc = "{nodate}" -> DictValue(Dict(SchemaKeys, NoDateVal))
      [] doc = "[list]" -> OtherValue("list")
      [] doc = "null" -> OtherValue("null")

\* json.loads(text): whitespace around one document is allowed, anything
\* else raises.
JsonLoads(text) ==
    LET t == StripChars(text, Whitespace)
    IN  IF Len(t) = 1 /\ t[1] \in JsonDocs
        THEN [ok |-> TRUE, value |-> Decode(t[1])]
        ELSE [ok |-> FALSE, value |-> NoValue]

NoResponse == [kind |-> "none", content |-> Empty]

ApiError == [kind |-> "api_error", content |-> Empty]

NoContent == [kind |-> "no_content", content |-> Empty]

Content(text) == [kind |-> "content", content |-> text]

\* str(resp.choices[0].message) when .content is None.
MessageRepr == <<"ChatCompletionMessage(content=None)">>

\* The backtick character (the lexer has no literal for it).
Backtick == "<backtick>"

\* FenceChars also stripping a fence's language tag.
FenceChars_WithTag == {Backtick, " ", "\n", "json"}

FenceChars == {Backtick, " ", "\n"}

call_openai_structurer(r, schema_arg) ==
    IF r.kind = "api_error"
    THEN DictValue(schema_arg)
    ELSE LET raw_json == IF r.kind = "content"
                         THEN Strip(r.content)
                         ELSE Strip(MessageRepr)
         IN  IF ~Truthy(raw_json)
             THEN DictValue(schema_arg)   \* json.dumps(resp) raises TypeError
             ELSE IF JsonLoads(raw_json).ok
                  THEN JsonLoads(raw_json).value
                  ELSE LET cleaned == StripChars(raw_json, FenceChars)
                       IN  IF JsonLoads(cleaned).ok
                           THEN JsonLoads(cleaned).value
                           ELSE DictValue(schema_arg)

Fence == <<Backtick, Backtick, Backtick>>

\* The responses the extraction draws from in the workflow.
ExtractResponses ==
    {ApiError, NoContent, Content(Empty),
     Content(<<"{full}">>), Content(<<"{partial}">>), Content(<<"{empty}">>),
     Content(<<"{omits}">>), Content(<<"{extra}">>), Content(<<"{permuted}">>),
     Content(<<"{nodate}">>), Content(<<"[list]">>), Content(<<"null">>),
     Content(<<"{trunc">>),
     Content(Fence \o <<"{partial}">> \o Fence),
     Content(Fence \o <<"json", "\n", "{full}", "\n">> \o Fence),
     Content(<<"Here is the JSON:", " ", "{full}">>)}

(***************************************************************************)
(* Source acquisition (tab 1 widgets and the acquirers)                    *)
(***************************************************************************)
AdvertText == <<"a">>

\* extract_text_from_upload on the sample files: a readable .txt and a PDF
\* from which no text can be read.
extract_text_from_upload(uploaded_file) ==
    IF uploaded_file = "advert.txt" THEN AdvertText ELSE Empty

\* extract_text_from_url on the sample URLs: a page with text and a host
\* that cannot be reached.
extract_text_from_url(url) ==
    IF url = <<"gov.uk/job">> THEN AdvertText ELSE Empty

SourceInput(st, f, p, u) ==
    [source_type |-> st, uploaded_file |-> f, pasted_text |-> p, url |-> u]

SourceInputs ==
    {SourceInput("Upload a file", f, Empty, Empty) :
        f \in {None, "advert.txt", "scan.pdf"}}
    \cup {SourceInput("Paste text", None, p, Empty) :
            p \in {Empty, Blank, <<" ", "a", " ">>}}
    \cup {SourceInput("Use a URL", None, Empty, u) :
            u \in {Empty, <<" ", "gov.uk/job">>, <<"unreachable.example">>}}

\* Lines 277-288: <<source_text, detected_source>> of the selected source.
AcquireSource(src) ==
    IF src.source_type = "Upload a file" /\ src.uploaded_file # None
    THEN <<extract_text_from_upload(src.uploaded_file), "file">>
    ELSE IF src.source_type = "Paste text" /\ Truthy(Strip(src.pasted_text))
    THEN <<Strip(src.pasted_text), "pasted text">>
    ELSE IF src.source_type = "Use a URL" /\ Truthy(Strip(src.url))
    THEN <<extract_text_from_url(Strip(src.url)), "URL">>
    ELSE <<Empty, None>>

\* The extractor is called only when the source gave text (lines 290-294).
ResponsesFor(src) ==
    IF Truthy(AcquireSource(src)[1]) THEN ExtractResponses ELSE {NoResponse}

(***************************************************************************)
(* Tab 3: the wizard and the bulk form                                     *)
(***************************************************************************)
\* Lines 323 and 333: the "Quick fix" section is rendered.
WizardShown(sch, pend, ext) == ext /\ pend # <<>> /\ AnyValue(sch)

\* RenderCursor starting the wizard on the Record's first field instead of
\* the queue's first field.
RenderCursor_FirstKey(sch, pend, cur, ext) ==
    IF WizardShown(sch, pend, ext) /\ cur = None THEN sch.keys[1] ELSE cur

\* Lines 333-337: the cursor after the section has (or has not) been rendered.
RenderCursor(sch, pend, cur, ext) ==
    IF WizardShown(sch, pend, ext) /\ cur = None THEN pend[1] ELSE cur

\* RemoveField with the comparison inverted.
RemoveField_Inverted(pend, field) == SelectSeq(pend, LAMBDA f : f = field)

\* [f for f in pending if f != field]
RemoveField(pend, field) == SelectSeq(pend, LAMBDA f : f # field)

\* Refused turning every closing date down, well-formed or not.
Refused_AllDates(field, answer) == field = "closing_date" /\ Truthy(answer)

\* Refused turning an empty answer down as well.
Refused_Empty(field, answer) ==
    \/ ~Truthy(answer)
    \/ field = "closing_date" /\ ~DatePattern(answer)

\* Lines 355-357: the submitted answer is refused.
Refused(field, answer) ==
    field = "closing_date" /\ Truthy(answer) /\ ~DatePattern(answer)

\* Lines 393-404: the dict built from the ten form widgets.
UpdatedSchema(form) == Dict(SchemaKeys, form)

\* Lines 407-409: the bulk form's own recomputation of the queue.
BulkMissing(updated_schema) ==
    SelectSeq(updated_schema.keys,
              LAMBDA k : \/ ~Truthy(updated_schema.val[k])
                         \/ ~Truthy(Strip(updated_schema.val[k])))

\* Lines 378-387: the form as prefilled from the Record, submitted unedited.
FormDefaults(sch) == [k \in SchemaKeySet |-> DictGet(sch, k)]

(***************************************************************************)
(* Bounds and input families                                               *)
(***************************************************************************)
\* The bulk form is submitted with at most this many fields left empty.
FormMaxEmpty == 1

\* Response texts of the extractor check have at most this many tokens.
MaxTokens == 3

FormLeaving(E) == [k \in SchemaKeySet |-> IF k \in E THEN Empty ELSE FillOf(k)]

FormInputs ==
    {FormLeaving(E) : E \in {X \in SUBSET SchemaKeySet : Cardinality(X) <= FormMaxEmpty}}
    \cup {[k \in SchemaKeySet |-> Empty],
          [FormLeaving({}) EXCEPT !["closing_date"] = BadDate],
          [FormLeaving({}) EXCEPT !["salary"] = Blank],
          [FormLeaving({"grade"}) EXCEPT !["summary"] = PaddedTxt]}

TextAnswers == {Empty, Blank, Txt, PaddedTxt}

DateAnswers == {Empty, Blank, GoodDate, PaddedDate, BadDate, LongDate, Txt}

\* What the user types into the wizard's box for a field.
AnswersFor(field) == IF field = "closing_date" THEN DateAnswers ELSE TextAnswers

(***************************************************************************)
(* Script runs of src/app.py                                               *)
(***************************************************************************)
\* Extract storing the source label before it looks at the text.
Extract_LabelFirst(src, r) ==
    /\ pc = "idle"
    /\ last_click' = "extract"
    /\ user_input' = Empty
    /\ pc' = "idle"
    /\ target_schema' = TARGET_SCHEMA
    /\ LET acquired == AcquireSource(src)
       IN  /\ source_text' = acquired[1]
           /\ IF ~Truthy(acquired[1])
              THEN /\ resp' = NoResponse
                   /\ extracted_local' = NoValue
                   /\ current_field' =
                          RenderCursor(schema, pending_fields, current_field, extracted)
                   /\ detected_source' = acquired[2]
                   /\ UNCHANGED <<schema, pending_fields, extracted>>
              ELSE LET ret == call_openai_structurer(r, TARGET_SCHEMA)
                   IN  /\ resp' = r
                       /\ extracted_local' = ret
                       /\ IF ret.type = "dict"
                          THEN /\ schema' = Dict(ret.keys, ret.val)
                               /\ pending_fields' = get_missing_fields(ret)
                               /\ extracted' = TRUE
                               /\ detected_source' = acquired[2]
                               /\ current_field' =
                                      RenderCursor(schema', pending_fields', None, TRUE)
                          ELSE /\ current_field' =
                                      RenderCursor(schema, pending_fields,
                                                   current_field, extracted)
                               /\ detected_source' = acquired[2]
                               /\ UNCHANGED <<schema, pending_fields, extracted>>
    /\ UNCHANGED gateVars

\* Extract setting the extraction flag whatever the extractor returned.
Extract_FlagFirst(src, r) ==
    /\ pc = "idle"
    /\ last_click' = "extract"
    /\ user_input' = Empty
    /\ pc' = "idle"
    /\ target_schema' = TARGET_SCHEMA
    /\ LET acquired == AcquireSource(src)
       IN  /\ source_text' = acquired[1]
           /\ IF ~Truthy(acquired[1])
              THEN /\ resp' = NoResponse
                   /\ extracted_local' = NoValue
                   /\ current_field' =
                          RenderCursor(schema, pending_fields, current_field, extracted)
                   /\ UNCHANGED <<schema, pending_fields, extracted, detected_source>>
              ELSE LET ret == call_openai_structurer(r, TARGET_SCHEMA)
                   IN  /\ resp' = r
                       /\ extracted_local' = ret
                       /\ IF ret.type = "dict"
                          THEN /\ schema' = Dict(ret.keys, ret.val)
                               /\ pending_fields' = get_missing_fields(ret)
                               /\ extracted' = TRUE
                               /\ detected_source' = acquired[2]
                               /\ current_field' =
                                      RenderCursor(schema', pending_fields', None, TRUE)
                          ELSE /\ current_field' =
                                      RenderCursor(schema, pending_fields,
                                                   current_field, extracted)
                               /\ extracted' = TRUE
                               /\ UNCHANGED <<schema, pending_fields, detected_source>>
    /\ UNCHANGED gateVars

\* "Extract from source" pressed (lines 275-309), then tab 3 is rendered in
\* the same run.
Extract(src, r) ==
    /\ pc = "idle"
    /\ last_click' = "extract"
    /\ user_input' = Empty
    /\ pc' = "idle"
    /\ target_schema' = TARGET_SCHEMA
    /\ LET acquired == AcquireSource(src)
       IN  /\ source_text' = acquired[1]
           /\ IF ~Truthy(acquired[1])
              THEN /\ resp' = NoResponse
                   /\ extracted_local' = NoValue
                   /\ current_field' =
                          RenderCursor(schema, pending_fields, current_field, extracted)
                   /\ UNCHANGED <<schema, pending_fields, extracted, detected_source>>
              ELSE LET ret == call_openai_structurer(r, TARGET_SCHEMA)
                   IN  /\ resp' = r
                       /\ extracted_local' = ret
                       /\ IF ret.type = "dict"
                          THEN /\ schema' = Dict(ret.keys, ret.val)
                               /\ pending_fields' = get_missing_fields(ret)
                               /\ extracted' = TRUE
                               /\ detected_source' = acquired[2]
                               /\ current_field' =
                                      RenderCursor(schema', pending_fields', None, TRUE)
                          ELSE /\ current_field' =
                                      RenderCursor(schema, pending_fields,
                                                   current_field, extracted)
                               /\ UNCHANGED <<schema, pending_fields, extracted,
                                              detected_source>>
    /\ UNCHANGED gateVars

\* TargetAfterSave with the session Record being the TARGET_SCHEMA object
\* itself, so that the wizard's in-place write reaches it.
TargetAfterSave_Aliased(target, field, answer) == DictSet(target, field, answer)

\* Lines 58 and 297 store copies, so the in-place write of lines 360 and 365
\* to the session Record leaves the module-level dict as it was.
TargetAfterSave(target, field, answer) == target

\* "Save this field" pressed (lines 351-368).
SaveField(a) ==
    /\ pc = "idle"
    /\ WizardShown(schema, pending_fields, extracted)
    /\ LET field == RenderCursor(schema, pending_fields, current_field, extracted)
           answer == Strip(a)
       IN  /\ a \in AnswersFor(field)
           /\ last_click' = "save_field"
           /\ user_input' = a
           /\ IF Refused(field, answer)
              THEN /\ current_field' = field
                   /\ pc' = "idle"
                   /\ target_schema' = TARGET_SCHEMA
                   /\ UNCHANGED <<schema, pending_fields>>
              ELSE /\ schema' = DictSet(schema, field, answer)
                   /\ target_schema' = TargetAfterSave(TARGET_SCHEMA, field, answer)
                   /\ pending_fields' = RemoveField(pending_fields, field)
                   /\ current_field' = None
                   /\ pc' = "rerun"
    /\ resp' = NoResponse
    /\ extracted_local' = NoValue
    /\ source_text' = Empty
    /\ UNCHANGED <<extracted, detected_source>>
    /\ UNCHANGED gateVars

\* SaveAll with the bulk form rendered before any extraction.
SaveAll_Unguarded(form) ==
    /\ pc = "idle"
    /\ last_click' = "save_all"
    /\ user_input' = Empty
    /\ schema' = UpdatedSchema(form)
    /\ pending_fields' = BulkMissing(UpdatedSchema(form))
    /\ current_field' = None
    /\ pc' = "rerun"
    /\ resp' = NoResponse
    /\ extracted_local' = NoValue
    /\ source_text' = Empty
    /\ target_schema' = TARGET_SCHEMA
    /\ UNCHANGED <<extracted, detected_source>>
    /\ UNCHANGED gateVars

\* "Save all" submitted (lines 391-412).
SaveAll(form) ==
    /\ pc = "idle"
    /\ extracted
    /\ last_click' = "save_all"
    /\ user_input' = Empty
    /\ schema' = UpdatedSchema(form)
    /\ pending_fields' = BulkMissing(UpdatedSchema(form))
    /\ current_field' = None
    /\ pc' = "rerun"
    /\ resp' = NoResponse
    /\ extracted_local' = NoValue
    /\ source_text' = Empty
    /\ target_schema' = TARGET_SCHEMA
    /\ UNCHANGED <<extracted, detected_source>>
    /\ UNCHANGED gateVars

\* "Download JSON" pressed (lines 419-425): the Record is exported as it is.
Download ==
    /\ pc = "idle"
    /\ extracted
    /\ AnyValue(schema)
    /\ last_click' = "download"
    /\ user_input' = Empty
    /\ current_field' = RenderCursor(schema, pending_fields, current_field, extracted)
    /\ pc' = "idle"
    /\ resp' = NoResponse
    /\ extracted_local' = NoValue
    /\ source_text' = Empty
    /\ target_schema' = TARGET_SCHEMA
    /\ UNCHANGED <<schema, pending_fields, extracted, detected_source>>
    /\ UNCHANGED gateVars

\* A script run with no button pressed: the run st.rerun() asked for, or one
\* caused by another widget.  Tab 3 is rendered.
Rerun ==
    /\ last_click' = "none"
    /\ user_input' = Empty
    /\ current_field' = RenderCursor(schema, pending_fields, current_field, extracted)
    /\ pc' = "idle"
    /\ resp' = NoResponse
    /\ extracted_local' = NoValue
    /\ source_text' = Empty
    /\ target_schema' = TARGET_SCHEMA
    /\ UNCHANGED <<schema, pending_fields, extracted, detected_source>>
    /\ UNCHANGED gateVars

(***************************************************************************)
(* password_gate.require_password                                          *)
(***************************************************************************)
Passwords ==
    {"", "letmein", "LetMeIn", "letmein ", "password", "hunter2", "admin", "123456",
     "1c8bfe8f801d79745c4631d09fff36c82aa37fc4cce4fc946683d7b336b63032"}

\* hashlib.sha256(pw.encode()).hexdigest() on the sample passwords.
Sha256(p) ==
    CASE p = "" -> "e3b0c44298fc1c149afbf4c8996fb92427ae41e4649b934ca495991b7852b855"
      [] p = "letmein" ->
           "1c8bfe8f801d79745c4631d09fff36c82aa37fc4cce4fc946683d7b336b63032"
      [] p = "LetMeIn" ->
           "1796980233375ccd113c972d946b2c4a7892e4f69c60684cfa730150047f9c0b"
      [] p = "letmein " ->
           "5a638437a68fea8fa387576367604cfdd4098069d60a9d42dbe3fd3a65b39728"
      [] p = "password" ->
           "5e884898da28047151d0e56f8dc6292773603d0d6aabbdd62a11ef721d1542d8"
      [] p = "hunter2" ->
           "f52fbd32b2b3b86ff88ef6c490628285f482af15ddcb29541f94bcf526a3f6c7"
      [] p = "admin" ->
           "8c6976e5b5410415bde908bd4dee15dfb167a9c873fc4bb8a81f6f2ab448a918"
      [] p = "123456" ->
           "8d969eef6ecad3c29a3a629280e686cf0c3f5d5a86aff3ca12020c923adc6c92"
      [] p = "1c8bfe8f801d79745c4631d09fff36c82aa37fc4cce4fc946683d7b336b63032" ->
           "d45c7c9867c121b8cee96976c275872649a6c0e02e96f07ee3c49b19dbed0aac"

\* Values of APP_PW_HASH: unset, three digests, a digest in upper case and a
\* password stored in the clear.
HashConfigs ==
    {"", Sha256("letmein"), Sha256("hunter2"), Sha256(""),
     "1C8BFE8F801D79745C4631D09FFF36C82AA37FC4CCE4FC946683D7B336B63032",
     "letmein"}

\* hmac.compare_digest on two ASCII strings.
compare_digest(a, b) == a = b

\* UnlockOutcome comparing the password itself, not its digest.
UnlockOutcome_NoHashing(p) ==
    IF PW_HASH = ""
    THEN "no_password_configured"
    ELSE IF compare_digest(p, PW_HASH)
         THEN "unlocked"
         ELSE "incorrect_password"

\* Lines 11-19: the outcome of pressing Unlock with password p.
UnlockOutcome(p) ==
    IF PW_HASH = ""
    THEN "no_password_configured"
    ELSE IF compare_digest(Sha256(p), PW_HASH)
         THEN "unlocked"
         ELSE "incorrect_password"

\* One run of require_password with the password box holding p; unlock says
\* whether the Unlock button was pressed.
RequirePassword(p, unlock) ==
    /\ pc = "idle"
    /\ IF authenticated
       THEN /\ gate_result' = "passed"
            /\ UNCHANGED <<authenticated, pw, pc>>
            /\ last_click' = "none"
       ELSE /\ pw' = p
            /\ last_click' = IF unlock THEN "unlock" ELSE "none"
            /\ IF unlock
               THEN IF UnlockOutcome(p) = "unlocked"
                    THEN /\ authenticated' = TRUE
                         /\ gate_result' = "rerun"
                         /\ pc' = "rerun"
                    ELSE /\ gate_result' = UnlockOutcome(p)
                         /\ UNCHANGED <<authenticated, pc>>
               ELSE /\ gate_result' = "prompt"
                    /\ UNCHANGED <<authenticated, pc>>
    /\ UNCHANGED <<PW_HASH, schema, pending_fields, current_field, extracted,
                   detected_source, user_input, resp, extracted_local,
                   source_text, target_schema>>

\* The run st.rerun() asked for (line 17): the gate is passed.
GateRerun ==
    /\ pc = "rerun"
    /\ authenticated
    /\ gate_result' = "passed"
    /\ pc' = "idle"
    /\ last_click' = "none"
    /\ UNCHANGED <<PW_HASH, authenticated, pw, schema, pending_fields, current_field,
                   extracted, detected_source, user_input, resp, extracted_local,
                   source_text, target_schema>>

(***************************************************************************)
(* Specifications                                                          *)
(***************************************************************************)
InitSession ==
    /\ schema = TARGET_SCHEMA
    /\ pending_fields = SchemaKeys
    /\ current_field = None
    /\ extracted = FALSE
    /\ detected_source = None
    /\ last_click = "none"
    /\ user_input = Empty
    /\ resp = NoResponse
    /\ extracted_local = NoValue
    /\ source_text = Empty
    /\ target_schema = TARGET_SCHEMA
    /\ pc = "idle"
    /\ authenticated = FALSE
    /\ pw = ""
    /\ gate_result = "not_run"

\* The application: src/app.py never calls require_password.
Init ==
    /\ InitSession
    /\ PW_HASH = Sha256("letmein")

Next ==
    \/ \E src \in SourceInputs : \E r \in ResponsesFor(src) : Extract(src, r)
    \/ \E a \in TextAnswers \cup DateAnswers : SaveField(a)
    \/ \E form \in FormInputs \cup {FormDefaults(schema)} : SaveAll(form)
    \/ Download
    \/ Rerun

Spec == Init /\ [][Next]_vars

\* The gate on its own: every script run calls require_password.
InitGate ==
    /\ InitSession
    /\ PW_HASH \in HashConfigs

NextGate ==
    \/ \E p \in Passwords : \E unlock \in BOOLEAN : RequirePassword(p, unlock)
    \/ GateRerun

SpecGate == InitGate /\ [][NextGate]_vars

\* call_openai_structurer on its own, over every response text of at most
\* MaxTokens tokens.
TokenAlphabet == {Backtick, " ", "\n", "\t", "json", "{partial}", "[list]", "{trunc"}

AllResponses ==
    {ApiError, NoContent}
    \cup {Content(t) : t \in UNION {[1..n -> TokenAlphabet] : n \in 0..MaxTokens}}

InitExtractor ==
    /\ InitSession
    /\ PW_HASH = Sha256("letmein")

\* The extractor receives the response.
Respond(r) ==
    /\ resp.kind = "none"
    /\ resp' = r
    /\ UNCHANGED <<schema, pending_fields, current_field, extracted, detected_source,
                   last_click, user_input, extracted_local, source_text,
                   target_schema, pc>>
    /\ UNCHANGED gateVars

\* Lines 209-233: the extractor returns.
Structure ==
    /\ resp.kind # "none"
    /\ extracted_local.type = "none"
    /\ extracted_local' = call_openai_structurer(resp, TARGET_SCHEMA)
    /\ UNCHANGED <<schema, pending_fields, current_field, extracted, detected_source,
                   last_click, user_input, resp, source_text, target_schema, pc>>
    /\ UNCHANGED gateVars

NextExtractor ==
    \/ \E r \in AllResponses : Respond(r)
    \/ Structure

SpecExtractor == InitExtractor /\ [][NextExtractor]_vars

\* get_missing_fields and the bulk form's recomputation on their own, over
\* Records in which at most MaxWritten fields hold a text other than "".
MaxWritten == 2

RecordTexts == {Blank, <<" ", "\n">>, Txt, PaddedTxt}

RecordVals ==
    {[k \in SchemaKeySet |-> IF k \in DOMAIN f THEN f[k] ELSE Empty] :
        f \in UNION {[S -> RecordTexts] :
                        S \in {X \in SUBSET SchemaKeySet : Cardinality(X) <= MaxWritten}}}

Records == {Dict(ks, v) : ks \in {SchemaKeys, PermutedKeys}, v \in RecordVals}

InitMissing ==
    /\ schema \in Records
    /\ pending_fields = SchemaKeys
    /\ current_field = None
    /\ extracted = TRUE
    /\ detected_source = "pasted text"
    /\ last_click = "none"
    /\ user_input = Empty
    /\ resp = NoResponse
    /\ extracted_local = NoValue
    /\ source_text = Empty
    /\ target_schema = TARGET_SCHEMA
    /\ pc = "idle"
    /\ PW_HASH = Sha256("letmein")
    /\ authenticated = FALSE
    /\ pw = ""
    /\ gate_result = "not_run"

\* Line 298: the queue is recomputed from the Record.
Recompute ==
    /\ pending_fields' = get_missing_fields(DictValue(schema))
    /\ last_click' = "recompute"
    /\ UNCHANGED <<schema, current_field, extracted, detected_source, user_input,
                   resp, extracted_local, source_text, target_schema, pc>>
    /\ UNCHANGED gateVars

\* Lines 407-409: the queue is recomputed by the bulk form's own expression.
BulkRecompute ==
    /\ pending_fields' = BulkMissing(schema)
    /\ last_click' = "bulk_recompute"
    /\ UNCHANGED <<schema, current_field, extracted, detected_source, user_input,
                   resp, extracted_local, source_text, target_schema, pc>>
    /\ UNCHANGED gateVars

NextMissing ==
    \/ Recompute
    \/ BulkRecompute

SpecMissing == InitMissing /\ [][NextMissing]_vars

(***************************************************************************)
(* Properties                                                              *)
(***************************************************************************)
\* The shape dddd-dd-dd.
DateShape(v) ==
    /\ Len(v) = 10
    /\ \A i \in 1..10 : IF i \in {5, 8} THEN v[i] = "-" ELSE v[i] \in Digits

\* A field of the Record is unfilled: absent, or empty once trimmed.
Unfilled(k) == StripChars(DictGet(schema, k), Whitespace) = Empty

\* A returned value is the unfilled Target Schema.
IsUnfilledSchema(v) ==
    /\ v.type = "dict"
    /\ v.keys = SchemaKeys
    /\ \A k \in SchemaKeySet : v.val[k] = Empty

\* The external call failed, or its text parses neither as it is nor with
\* backticks and whitespace stripped from its ends.
ResponseFailed(r) ==
    \/ r.kind \in {"api_error", "no_content"}
    \/ /\ r.kind = "content"
       /\ ~JsonLoads(r.content).ok
       /\ ~JsonLoads(StripChars(r.content, {Backtick} \cup Whitespace)).ok

\* C1: in every reachable session state the Record's key set is exactly the
\* Target Schema's ten keys.
RecordKeysAreSchemaKeys ==
    /\ DictKeySet(schema) = SchemaKeySet
    /\ Len(schema.keys) = Cardinality(SchemaKeySet)

\* C2: in every reachable session state a field of the Record is in the
\* Missing-Field Queue iff its value is empty after trimming.
QueueIffUnfilled ==
    \A k \in DictKeySet(schema) : k \in Range(pending_fields) <=> Unfilled(k)

\* C3: in every reachable session state the cursor is unset or a member of
\* the Missing-Field Queue.
CursorInQueue == current_field = None \/ current_field \in Range(pending_fields)

\* C3 witness: after an extraction and two wizard saves (one filled, one left
\* empty) the cursor stands on a later field of the queue.
CursorInQueueWitness ==
    /\ pc = "idle"
    /\ current_field = "summary"
    /\ DictGet(schema, "salary") = Txt
    /\ DictGet(schema, "grade") = Empty
    /\ "grade" \notin Range(pending_fields)
    /\ Len(pending_fields) = 4

\* C4: while the session is not authenticated no downstream operation has
\* run and the Record, the Queue and the cursor are as at session start.
GateBlocksWorkflow ==
    ~authenticated =>
        /\ last_click \notin {"extract", "save_field", "save_all", "download"}
        /\ schema = TARGET_SCHEMA
        /\ pending_fields = SchemaKeys
        /\ current_field = None

\* C5: authenticated becomes true only by an Unlock whose password's digest
\* equals the configured non-empty digest; an Unlock with a mismatch or with
\* no digest configured leaves it false and stops at the prompt; once true it
\* stays true and the gate lets the run pass.
GateSound ==
    [][/\ (~authenticated /\ authenticated') =>
             (last_click' = "unlock" /\ PW_HASH # "" /\ Sha256(pw') = PW_HASH)
       /\ (~authenticated /\ last_click' = "unlock"
             /\ (PW_HASH = "" \/ Sha256(pw') # PW_HASH)) =>
             (~authenticated'
                /\ gate_result' \in {"no_password_configured", "incorrect_password"})
       /\ authenticated => (authenticated' /\ gate_result' = "passed")]_vars

\* C5 witness: the session was unlocked with the matching password and a
\* later run passed the gate.
GateSoundWitness ==
    /\ authenticated
    /\ gate_result = "passed"
    /\ pw = "hunter2"
    /\ PW_HASH = Sha256("hunter2")

\* C6: when the external call fails or its response parses neither way,
\* call_openai_structurer returns the unfilled Target Schema: ten keys, every
\* value empty.
ExtractorFallsBack ==
    (extracted_local.type # "none" /\ ResponseFailed(resp)) =>
        IsUnfilledSchema(extracted_local)

\* C6 witness: a fenced response carrying a language tag was not parsed and
\* the unfilled schema was returned.
ExtractorFallsBackWitness ==
    /\ resp = Content(<<Backtick, "json", "{partial}">>)
    /\ IsUnfilledSchema(extracted_local)

\* C7: a wizard submission for closing_date whose trimmed value is non-empty
\* and not of the shape dddd-dd-dd changes neither the Record nor the Queue
\* and leaves the cursor on closing_date.
InvalidDateKeepsState ==
    [][(/\ last_click' = "save_field"
        /\ current_field = "closing_date"
        /\ StripChars(user_input', Whitespace) # Empty
        /\ ~DateShape(StripChars(user_input', Whitespace))) =>
            /\ schema' = schema
            /\ pending_fields' = pending_fields
            /\ current_field' = "closing_date"]_vars

\* C7 witness: 07/11/2025 was submitted for closing_date and the wizard is
\* still asking for closing_date.
InvalidDateWitness ==
    /\ last_click = "save_field"
    /\ user_input = BadDate
    /\ pc = "idle"
    /\ current_field = "closing_date"
    /\ "closing_date" \in Range(pending_fields)
    /\ DictGet(schema, "closing_date") = Empty

\* A submission the wizard accepts for field f.
ValidAnswer(f, v) == ~(f = "closing_date" /\ v # Empty /\ ~DateShape(v))

\* C8: a valid wizard submission writes the trimmed value to the cursor's
\* field only, removes exactly that field from the Queue keeping the order of
\* the rest, and leaves every other value of the Record unchanged.
ValidSaveFrame ==
    [][(/\ last_click' = "save_field"
        /\ ValidAnswer(current_field, StripChars(user_input', Whitespace))) =>
            /\ schema'.keys = schema.keys
            /\ schema'.val[current_field] = StripChars(user_input', Whitespace)
            /\ \A k \in DictKeySet(schema) \ {current_field} :
                   schema'.val[k] = schema.val[k]
            /\ current_field \notin Range(pending_fields')
            /\ \E i \in 1..Len(pending_fields) :
                   /\ pending_fields[i] = current_field
                   /\ pending_fields' =
                          SubSeq(pending_fields, 1, i - 1)
                              \o SubSeq(pending_fields, i + 1, Len(pending_fields))]_vars

\* C8 witness: a padded value was submitted for salary; salary holds the
\* trimmed value and has left the queue, the other five remain.
ValidSaveWitness ==
    /\ last_click = "save_field"
    /\ user_input = PaddedTxt
    /\ DictGet(schema, "salary") = Txt
    /\ pending_fields = <<"grade", "summary", "responsibilities",
                          "essential_criteria", "desirable_criteria">>

\* C9: after an extraction that filled some but not all of the fields, the
\* Queue holds the unfilled schema fields in schema order and the wizard
\* prompts for the first of them.
PartialExtractionQueue ==
    (/\ pc = "idle"
     /\ last_click = "extract"
     /\ extracted_local.type = "dict"
     /\ \E k \in SchemaKeySet : ~Unfilled(k)
     /\ \E k \in SchemaKeySet : Unfilled(k)) =>
        /\ pending_fields = SelectSeq(SchemaKeys, Unfilled)
        /\ current_field = pending_fields[1]

\* C10: after a failed extraction the session holds the unfilled Record and
\* the wizard awaits input with the cursor on the first field.
FailedExtractionStartsWizard ==
    (/\ pc = "idle"
     /\ last_click = "extract"
     /\ extracted_local.type = "dict"
     /\ ResponseFailed(resp)) =>
        /\ schema = TARGET_SCHEMA
        /\ current_field = SchemaKeys[1]

\* C11: after a successful extraction the Queue is the one recomputed from
\* the returned Record; if it is non-empty the wizard awaits input with the
\* cursor on its first element, otherwise the cursor is unset (complete).
ExtractionEntersWizard ==
    (/\ pc = "idle"
     /\ last_click = "extract"
     /\ extracted_local.type = "dict"
     /\ ~ResponseFailed(resp)) =>
        /\ schema = Dict(extracted_local.keys, extracted_local.val)
        /\ pending_fields = SelectSeq(schema.keys, Unfilled)
        /\ current_field = IF pending_fields # <<>> THEN pending_fields[1] ELSE None

\* C12: a well-formed date submitted while the cursor is on closing_date
\* takes closing_date out of the Queue and reruns the script, and the rerun
\* puts the cursor on the first field still queued, or leaves it unset when
\* none is.
ValidDateAdvances ==
    [][/\ (/\ last_click' = "save_field"
           /\ current_field = "closing_date"
           /\ DateShape(StripChars(user_input', Whitespace))) =>
               /\ pc' = "rerun"
               /\ current_field' = None
               /\ pending_fields' =
                      SelectSeq(pending_fields, LAMBDA f : f # "closing_date")
       /\ (/\ pc = "rerun"
           /\ last_click = "save_field"
           /\ DateShape(StripChars(user_input, Whitespace))
           /\ DictGet(schema, "closing_date") = StripChars(user_input, Whitespace)) =>
               /\ pc' = "idle"
               /\ pending_fields' = pending_fields
               /\ current_field' =
                      IF pending_fields = <<>> THEN None ELSE pending_fields[1]]_vars

\* C12 witness: a padded well-formed date has just been saved for
\* closing_date while four later fields are still queued.
ValidDateWitness ==
    /\ pc = "rerun"
    /\ last_click = "save_field"
    /\ user_input = PaddedDate
    /\ DictGet(schema, "closing_date") = GoodDate
    /\ pending_fields = <<"summary", "responsibilities",
                          "essential_criteria", "desirable_criteria">>

\* C13: an empty or whitespace-only submission while the cursor is on
\* closing_date keeps closing_date in the Queue and the wizard goes on
\* prompting for closing_date.
EmptyDateStillMissing ==
    [][(/\ last_click' = "save_field"
        /\ current_field = "closing_date"
        /\ StripChars(user_input', Whitespace) = Empty) =>
            /\ "closing_date" \in Range(pending_fields')
            /\ current_field' = "closing_date"]_vars

\* C14: an empty or whitespace-only submission for a field other than
\* closing_date stores the empty string, takes the field out of the Queue and
\* clears the cursor; a field enters the Queue only by an extraction or a bulk
\* save, and the wizard only prompts for queued fields.
EmptyAnswerIsFinal ==
    [][/\ (/\ last_click' = "save_field"
           /\ current_field # "closing_date"
           /\ StripChars(user_input', Whitespace) = Empty) =>
               /\ schema'.val[current_field] = Empty
               /\ current_field \notin Range(pending_fields')
               /\ current_field' = None
               /\ pc' = "rerun"
       /\ \A k \in Range(pending_fields') \ Range(pending_fields) :
              last_click' \in {"extract", "save_all"}
       /\ current_field' # None => current_field' \in Range(pending_fields')]_vars

\* C14 witness: a blank was submitted for salary; salary holds the empty
\* string, is no longer queued and the cursor is unset.
EmptyAnswerWitness ==
    /\ pc = "rerun"
    /\ last_click = "save_field"
    /\ user_input = Blank
    /\ DictGet(schema, "salary") = Empty
    /\ "salary" \notin Range(pending_fields)
    /\ "grade" \in Range(pending_fields)
    /\ current_field = None

\* C15: a bulk save replaces the Record with the ten submitted values, sets
\* the Queue to the schema-ordered fields whose submitted value is empty once
\* trimmed and clears the cursor; the rerun that follows prompts for the
\* Queue's first field if the Queue is non-empty and for none otherwise.
BulkSaveReenters ==
    [][/\ last_click' = "save_all" =>
              /\ schema'.keys = SchemaKeys
              /\ pending_fields' =
                     SelectSeq(SchemaKeys,
                               LAMBDA k : StripChars(schema'.val[k], Whitespace) = Empty)
              /\ current_field' = None
              /\ pc' = "rerun"
       /\ (pc = "rerun" /\ last_click = "save_all") =>
              /\ schema' = schema
              /\ pending_fields' = pending_fields
              /\ current_field' =
                     IF pending_fields = <<>> THEN None ELSE pending_fields[1]]_vars

\* C16: when the selected source yields no text, the extractor is not
\* invoked and the Record, the Queue, the cursor, the extraction flag and the
\* source label are left unchanged; the session is idle again, so the next
\* extraction can be started.
NoSourceKeepsSession ==
    [][(last_click' = "extract" /\ ~Truthy(source_text')) =>
           /\ resp' = NoResponse
           /\ extracted_local' = NoValue
           /\ pc' = "idle"
           /\ UNCHANGED sessionVars]_vars

\* C16 witness: an extraction attempt that invoked no extractor, in a session
\* that already holds an extraction from pasted text.
NoSourceWitness ==
    /\ last_click = "extract"
    /\ source_text = Empty
    /\ resp = NoResponse
    /\ extracted
    /\ detected_source = "pasted text"
    /\ current_field = "salary"

\* C19: when the response parses as JSON that is not an object, the Record,
\* the Queue, the cursor, the extraction flag and the source label are left
\* as they were before the attempt.
NonObjectKeepsSession ==
    [][(/\ last_click' = "extract"
        /\ resp'.kind = "content"
        /\ \/ JsonLoads(resp'.content).ok
           \/ JsonLoads(StripChars(resp'.content, {Backtick} \cup Whitespace)).ok
        /\ extracted_local'.type # "dict") =>
            /\ extracted_local'.type \in {"list", "null"}
            /\ UNCHANGED sessionVars]_vars

\* C19 witness: a list was answered to an extraction attempt in a session
\* that already holds an extraction and prompts for a field.
NonObjectWitness ==
    /\ last_click = "extract"
    /\ resp = Content(<<"[list]">>)
    /\ extracted_local = OtherValue("list")
    /\ extracted
    /\ current_field = "salary"

BeforeExtraction ==
    [][/\ ~extracted =>
              /\ schema = TARGET_SCHEMA
              /\ pending_fields = SchemaKeys
              /\ current_field = None
       /\ ~extracted' =>
              /\ schema' = TARGET_SCHEMA
              /\ pending_fields' = SchemaKeys
              /\ current_field' = None
       /\ last_click' \in {"save_field", "save_all", "download"} => extracted
       /\ extracted => extracted']_vars

\* C18 witness: an extraction was attempted and answered with a list, and
\* the flag is still false.
BeforeExtractionWitness ==
    /\ ~extracted
    /\ last_click = "extract"
    /\ resp = Content(<<"[list]">>)
    /\ schema = TARGET_SCHEMA

\* A text made of whitespace only: nothing is left of it once trimmed.
AllWhitespace(v) == \A i \in 1..Len(v) : v[i] \in Whitespace

\* C17: get_missing_fields returns exactly the fields whose trimmed value is
\* empty, in the Record's field order; recomputing it on the same Record
\* gives the same result, and so does the bulk form's recomputation.
MissingIsUnfilled ==
    [][/\ last_click' \in {"recompute", "bulk_recompute"} =>
              pending_fields' =
                  SelectSeq(schema.keys, LAMBDA k : AllWhitespace(schema.val[k]))
       /\ (/\ last_click \in {"recompute", "bulk_recompute"}
           /\ last_click' \in {"recompute", "bulk_recompute"}) =>
              pending_fields' = pending_fields]_vars

\* C17 witness: the queue recomputed by get_missing_fields from a Record in
\* reversed field order holding a blank and a padded text.
MissingIsUnfilledWitness ==
    /\ last_click = "recompute"
    /\ schema.keys = PermutedKeys
    /\ schema.val["salary"] = Blank
    /\ schema.val["grade"] = PaddedTxt
    /\ "salary" \in Range(pending_fields)
    /\ "grade" \notin Range(pending_fields)

====
